---- MODULE Spec2Model ----
(***************************************************************************)
(* Fold-parallel k-fold cross-validation of decision trees                 *)
(* (CrossValidator of cv.cpp / cv.hpp, and the benchmark driver            *)
(* testDatasetCV of cv_parallel.cpp).                                      *)
(*                                                                         *)
(* A DataFrame is a sequence of rows.  A row is a record                   *)
(*   [id |-> position in the loaded dataset, x |-> features, y |-> label]  *)
(* where id is the identity of the row (two rows may hold equal values).   *)
(* A C++ 0-based index i is position i + 1 of a TLA+ sequence.             *)
(* A double is modelled in fixed point: the integer value * Scale.         *)
(***************************************************************************)
EXTENDS Integers, Sequences, FiniteSets, TLC

(***************************************************************************)
(* Bounds of the model.                                                    *)
(***************************************************************************)
\* largest dataset (rows) handed to createKFolds in SpecFolds
MaxRows == 12
\* largest k handed to createKFolds in SpecFolds
MaxK == 5
\* seeds 0 .. MaxSeed
MaxSeed == 2
\* largest dataset of the concurrent specification
MaxCVRows == 4
\* largest k_folds given to the constructor in the concurrent specification
MaxCVFolds == 3
\* largest OMP_NUM_THREADS
MaxThreads == 4
\* fixed-point resolution of a double
Scale == 1000

\* number of tree depths the benchmark driver tries
NumDepths == 2
\* completed_folds counts up to MaxCompleted and stays there: the code only
\* asks whether it is 1
MaxCompleted == 2

VARIABLES
    data_,            \* CrossValidator::data_ (DataFrame)
    k_folds_,         \* CrossValidator::k_folds_
    random_seed_,     \* CrossValidator::random_seed_
    num_threads,      \* OMP_NUM_THREADS: size of the team of a parallel region
    pc,               \* position of the calling code (testDatasetCV)
    depth_i,          \* index of the depth the driver's loop is at
    results,          \* testDatasetCV: std::vector<CVResult> results
    vpc,              \* position inside validateSingleHyperparameter
    params,           \* validateSingleHyperparameter: params
    folds,            \* validateSingleHyperparameter: folds, <<>> before the call
    fold_scores,      \* validateSingleHyperparameter: fold_scores
    iter,             \* per loop iteration (fold): progress, thread, locals
    completed_folds,  \* static int completed_folds
    failure,          \* the error raised by a fold's training, "none" if none
    train_count,      \* ghost: trees built per fold in the current call
    score_count,      \* ghost: accuracy evaluations per fold in the current call
    writes,           \* ghost: <<fold, slot>> of every store to fold_scores
    slot_writes,      \* ghost: number of stores per slot of fold_scores
    cf_threads,       \* ghost: threads that have accessed completed_folds
    trained,          \* ghost: what each fold's tree was built from and scored on
    warm,             \* ghost: the CVResult of the last warm-up call, <<>> if none
    prev_folds,       \* ghost: the folds of the call before this one, <<>> if none
    param_grid,       \* gridSearchCV: param_grid
    arg,              \* the argument of the function a specification applies
    ret               \* its return value, <<>> before the return

vars == <<data_, k_folds_, random_seed_, num_threads, pc, depth_i, results, vpc,
          params, folds, fold_scores, iter, completed_folds, failure,
          train_count, score_count, writes, slot_writes, cf_threads, trained,
          warm, prev_folds, param_grid, arg, ret>>

validator == <<data_, k_folds_, random_seed_, num_threads>>

call_state == <<vpc, params, fold_scores, iter, completed_folds, failure,
                train_count, score_count, writes, slot_writes, cf_threads, trained>>

\* the variables of the callers of gridSearchCV, getBestParams,
\* calculateMeanStd and accuracy, and the driver's warm-up result
caller_state == <<warm, prev_folds, param_grid, arg, ret>>

(***************************************************************************)
(* Datasets.                                                               *)
(***************************************************************************)
\* the dataset of n rows loaded by DataLoader::load; labels alternate in
\* blocks of two rows, the first feature is the row position, the second
\* feature has the same value in every row
LoadData(n, has_features) ==
    [i \in 1..n |-> [id |-> i,
                     x  |-> IF has_features THEN <<i, 0>> ELSE <<>>,
                     y  |-> ((i - 1) \div 2) % 2]]

\* one step of the seeded generator behind DataFrame::sample
NextRand(s) == (s * 37 + 11) % 1009

Swap(seq, i, j) == [seq EXCEPT ![i] = seq[j], ![j] = seq[i]]

RECURSIVE FisherYates(_, _, _)
FisherYates(seq, i, s) ==
    IF i <= 1 THEN seq
    ELSE LET r == NextRand(s)
             j == (r % i) + 1
         IN  FisherYates(Swap(seq, i, j), i - 1, r)

\* DataFrame::sample(-1, seed, false): all rows, without replacement, in the
\* order of a seeded shuffle
sample(df, seed) == FisherYates(df, Len(df), seed + 1)

(***************************************************************************)
(* CrossValidator::createKFolds                                            *)
(***************************************************************************)
fold_size(len, k) == len \div k

remainder(len, k) == len % k

\* faulty variant: the remainder is not handed out
current_fold_size_no_remainder(fold, len, k) == fold_size(len, k)

current_fold_size(fold, len, k) ==
    fold_size(len, k) + (IF fold < remainder(len, k) THEN 1 ELSE 0)

\* faulty variant: every earlier fold is taken to have the base size
start_idx_no_remainder(fold, len, k) == fold * fold_size(len, k)

RECURSIVE start_idx(_, _, _)
start_idx(fold, len, k) ==
    IF fold = 0 THEN 0
    ELSE start_idx(fold - 1, len, k)
         + fold_size(len, k) + (IF fold - 1 < remainder(len, k) THEN 1 ELSE 0)

end_idx(fold, len, k) == start_idx(fold, len, k) + current_fold_size(fold, len, k)

\* rows i with start <= i < end, in order
validation_data(shuffled_data, start, end) ==
    [j \in 1..(end - start) |-> shuffled_data[start + j]]

RECURSIVE training_rows(_, _, _, _)
training_rows(shuffled_data, start, end, i) ==
    IF i >= Len(shuffled_data) THEN <<>>
    ELSE (IF i < start \/ i >= end THEN <<shuffled_data[i + 1]>> ELSE <<>>)
         \o training_rows(shuffled_data, start, end, i + 1)

\* faulty variant: the first row of the validation block is (also) put in the training set
training_data_off_by_one(shuffled_data, start, end) ==
    training_rows(shuffled_data, start + 1, end, 0)

\* rows i with i < start or i >= end, in order
training_data(shuffled_data, start, end) ==
    training_rows(shuffled_data, start, end, 0)

\* fold_pair = {training_data, validation_data}
fold_pair(shuffled_data, fold, k) ==
    LET len == Len(shuffled_data)
        s   == start_idx(fold, len, k)
        e   == end_idx(fold, len, k)
    IN  <<training_data(shuffled_data, s, e), validation_data(shuffled_data, s, e)>>

createKFolds(data, k, seed) ==
    LET shuffled_data == sample(data, seed)
    IN  [f \in 1..k |-> fold_pair(shuffled_data, f - 1, k)]

(***************************************************************************)
(* HyperparameterSet and CVResult (cv.hpp)                                 *)
(***************************************************************************)
\* HyperparameterSet(int depth = 5, int min_obs_val = 1,
\*                   std::string loss_func = "gini_impurity")
HyperparameterSet(depth) ==
    [max_depth |-> depth, min_obs |-> 1, loss |-> "gini_impurity"]

\* HyperparameterSet(depth, min_obs_val, loss_func): all three arguments given
HyperparameterSetOf(depth, min_obs_val, loss_func) ==
    [max_depth |-> depth, min_obs |-> min_obs_val, loss |-> loss_func]

\* faulty variant: the members are zero-initialised, not defaulted
DefaultHyperparameterSet_zeroed == [max_depth |-> 0, min_obs |-> 0, loss |-> ""]

\* HyperparameterSet(): depth = 5
DefaultHyperparameterSet == HyperparameterSet(5)

CVResult(dataset_name, depth, time_ms, mean_acc, std_acc, scores) ==
    [dataset |-> dataset_name, max_depth |-> depth, cv_time_ms |-> time_ms,
     mean_cv_accuracy |-> mean_acc, std_cv_accuracy |-> std_acc,
     fold_scores |-> scores]

(***************************************************************************)
(* Decision Tree Engine and Metrics.  decision_tree.cpp, tree_node.cpp,    *)
(* losses.cpp and metrics.cpp are not among the sources: this part follows *)
(* sections 4.1 - 4.3 of the specification.                                *)
(* A threshold is kept doubled (thr2 = 2 * threshold), so that the         *)
(* midpoint of two integer feature values stays an integer.                *)
(***************************************************************************)
Labels(rows) == {rows[i].y : i \in 1..Len(rows)}

Count(rows, c) == Cardinality({i \in 1..Len(rows) : rows[i].y = c})

\* number of feature columns (width - 1); 0 for an empty frame
NumFeatures(rows) == IF Len(rows) = 0 THEN 0 ELSE Len(rows[1].x)

\* majority class, the smallest label among equally frequent ones
Majority(rows) ==
    IF Len(rows) = 0 THEN 0
    ELSE CHOOSE c \in Labels(rows) :
            \A d \in Labels(rows) :
                \/ Count(rows, c) > Count(rows, d)
                \/ (Count(rows, c) = Count(rows, d) /\ c <= d)

\* faulty variant: the prediction of a Leaf is left at 0
Leaf_without_prediction(rows) == [leaf |-> TRUE, pred |-> 0]

\* a Leaf: its prediction is the majority class of the subset's labels
Leaf(rows) == [leaf |-> TRUE, pred |-> Majority(rows)]

FeatureValues(rows, j) == {rows[i].x[j] : i \in 1..Len(rows)}

\* doubled midpoints between consecutive distinct values of feature j
Thresholds(rows, j) ==
    LET vs == FeatureValues(rows, j)
    IN  {a + b : <<a, b>> \in
            {p \in vs \X vs : p[1] < p[2] /\ ~ \E m \in vs : p[1] < m /\ m < p[2]}}

\* the candidate splits on the features of the set feats
CandidatesAmong(rows, feats) ==
    UNION {{[feature |-> j, thr2 |-> t] : t \in Thresholds(rows, j)} : j \in feats}

Candidates(rows) == CandidatesAmong(rows, 1..NumFeatures(rows))

\* the candidate feature set of a node: every feature when mtry < 0, else
\* mtry feature indices drawn without replacement by a generator seeded from
\* the tree's seed and the node's sequence number
FeatureSubset(nf, mtry, seed, node) ==
    IF mtry < 0 THEN 1..nf
    ELSE LET drawn == FisherYates([j \in 1..nf |-> j], nf, seed + node)
         IN  {drawn[j] : j \in 1..(IF mtry < nf THEN mtry ELSE nf)}

\* faulty variant: a row whose value equals the threshold goes right
GoesLeft_strict(row, c) == 2 * row.x[c.feature] < c.thr2

\* the test of a split: feature value <= threshold
GoesLeft(row, c) == 2 * row.x[c.feature] <= c.thr2

LeftPart(rows, c) == SelectSeq(rows, LAMBDA r : GoesLeft(r, c))

RightPart(rows, c) == SelectSeq(rows, LAMBDA r : ~GoesLeft(r, c))

\* sum over the classes of (count of the class)^2: n^2 * (1 - gini impurity)
SumSq(rows) ==
    LET RECURSIVE Acc(_)
        Acc(S) == IF S = {} THEN 0
                  ELSE LET c == CHOOSE c \in S : TRUE
                       IN  Count(rows, c) * Count(rows, c) + Acc(S \ {c})
    IN  Acc(Labels(rows))

\* the size-weighted purity of the two partitions of split c, as the
\* fraction num / den
SplitNum(rows, c) ==
    LET l == LeftPart(rows, c)
        r == RightPart(rows, c)
    IN  SumSq(l) * Len(r) + SumSq(r) * Len(l)

SplitDen(rows, c) == Len(LeftPart(rows, c)) * Len(RightPart(rows, c))

\* every candidate split with its purity fraction
ScoredSplits(rows, cands) ==
    {[split |-> c, num |-> SplitNum(rows, c), den |-> SplitDen(rows, c)] : c \in cands}

\* split s reduces the loss by strictly more than split t
BetterSplit(s, t) == s.num * t.den > t.num * s.den

SameReduction(s, t) == s.num * t.den = t.num * s.den

\* maximal loss reduction, then lowest feature index, then lowest threshold
BestSplit(rows, cands) ==
    LET scored == ScoredSplits(rows, cands)
        best == CHOOSE s \in scored :
                    \A t \in scored :
                        \/ BetterSplit(s, t)
                        \/ /\ SameReduction(s, t)
                           /\ \/ s.split.feature < t.split.feature
                              \/ /\ s.split.feature = t.split.feature
                                 /\ s.split.thr2 <= t.split.thr2
    IN  best.split

\* loss reduction of split c is > 0
PositiveReduction(rows, c) ==
    SplitNum(rows, c) * Len(rows) > SumSq(rows) * SplitDen(rows, c)

\* faulty variant: the depth limit is tested one level too late
DepthReached_late(depth, hp) == hp.max_depth >= 0 /\ depth > hp.max_depth

\* depth == max_depth (if bounded)
DepthReached(depth, hp) == hp.max_depth >= 0 /\ depth >= hp.max_depth

\* the stopping conditions, checked before the candidate features are drawn
StopSplitting(rows, depth, hp) ==
    \/ Len(rows) < 2 * hp.min_obs
    \/ DepthReached(depth, hp)
    \/ Cardinality(Labels(rows)) <= 1
    \/ Candidates(rows) = {}

\* faulty variant: the sizes of the two partitions are not looked at
SplitRejected_any_size(rows, c, hp) == ~PositiveReduction(rows, c)

\* step 5: the best split is given up for a Leaf
SplitRejected(rows, c, hp) ==
    \/ ~PositiveReduction(rows, c)
    \/ Len(LeftPart(rows, c)) < hp.min_obs
    \/ Len(RightPart(rows, c)) < hp.min_obs

\* the node built for the row subset rows at the given depth; node is the
\* node's sequence number (the root is 1, the children of i are 2i and 2i + 1)
RECURSIVE BuildNode(_, _, _, _, _, _)
BuildNode(rows, depth, node, hp, mtry, seed) ==
    IF StopSplitting(rows, depth, hp) THEN Leaf(rows)
    ELSE LET cands == CandidatesAmong(rows,
                          FeatureSubset(NumFeatures(rows), mtry, seed, node))
         IN  IF cands = {} THEN Leaf(rows)
             ELSE LET c == BestSplit(rows, cands)
                  IN  IF SplitRejected(rows, c, hp) THEN Leaf(rows)
                      ELSE [leaf |-> FALSE, feature |-> c.feature, thr2 |-> c.thr2,
                            left  |-> BuildNode(LeftPart(rows, c), depth + 1,
                                                2 * node, hp, mtry, seed),
                            right |-> BuildNode(RightPart(rows, c), depth + 1,
                                                2 * node + 1, hp, mtry, seed)]

\* faulty variant: every dataset of fewer than min_obs rows is an error
BuildError_small(rows, hp) ==
    IF hp.min_obs <= 0 THEN "InvalidHyperparameter"
    ELSE IF Len(rows) < hp.min_obs \/ NumFeatures(rows) = 0 THEN "InsufficientData"
    ELSE "none"

\* the errors of build: "none", "InvalidHyperparameter" or "InsufficientData";
\* a degenerate dataset (no row, a single row) is not an error
BuildError(rows, hp) ==
    IF hp.min_obs <= 0 THEN "InvalidHyperparameter"
    ELSE IF Len(rows) <= 1 THEN "none"
    ELSE IF Len(rows) < hp.min_obs \/ NumFeatures(rows) = 0 THEN "InsufficientData"
    ELSE "none"

\* DecisionTree(train_data, regression, loss, mtry, max_height,
\*              max_leaves = -1, min_obs, max_prop = -1, seed)
DecisionTree(train_data, hp, mtry, seed) == BuildNode(train_data, 0, 1, hp, mtry, seed)

\* DecisionTree::getSize: the number of nodes
RECURSIVE getSize(_)
getSize(node) ==
    IF node.leaf THEN 1 ELSE 1 + getSize(node.left) + getSize(node.right)

\* DecisionTree::getHeight: the largest depth of a node, the root's being 0
RECURSIVE getHeight(_)
getHeight(node) ==
    IF node.leaf THEN 0
    ELSE LET l == getHeight(node.left)
             r == getHeight(node.right)
         IN  1 + (IF l > r THEN l ELSE r)

RECURSIVE PredictRow(_, _)
PredictRow(node, row) ==
    IF node.leaf THEN node.pred
    ELSE IF GoesLeft(row, node) THEN PredictRow(node.left, row)
    ELSE PredictRow(node.right, row)

\* DecisionTree::predict: one prediction per row, in row order
predict(tree, df) == [i \in 1..Len(df) |-> PredictRow(tree, df[i])]

\* DataFrame::col(-1): the label column
col_label(df) == [i \in 1..Len(df) |-> df[i].y]

\* faulty variant: the fraction of the positions that differ
accuracy_of_mismatches(true_labels, predictions) ==
    (Cardinality({i \in 1..Len(true_labels) : true_labels[i] # predictions[i]}) * Scale)
        \div Len(true_labels)

\* accuracy(true_labels, predictions): the fraction of matching positions
accuracy(true_labels, predictions) ==
    (Cardinality({i \in 1..Len(true_labels) : true_labels[i] = predictions[i]}) * Scale)
        \div Len(true_labels)

(***************************************************************************)
(* CrossValidator::calculateMeanStd                                        *)
(***************************************************************************)
RECURSIVE SumSeq(_, _)
SumSeq(scores, i) ==
    IF i > Len(scores) THEN 0 ELSE scores[i] + SumSeq(scores, i + 1)

RECURSIVE VarianceSum(_, _, _)
VarianceSum(scores, mean, i) ==
    IF i > Len(scores) THEN 0
    ELSE (scores[i] - mean) * (scores[i] - mean) + VarianceSum(scores, mean, i + 1)

\* std::sqrt: the largest r with r * r <= v
Sqrt(v) == CHOOSE r \in 0..v : r * r <= v /\ (r + 1) * (r + 1) > v

\* faulty variant: the sample variance (n - 1)
variance_divisor_sample(n) == IF n > 1 THEN n - 1 ELSE 1

\* variance_sum / scores.size()
variance_divisor(n) == n

calculateMeanStd(scores) ==
    IF Len(scores) = 0 THEN <<0, 0>>
    ELSE LET mean == SumSeq(scores, 1) \div Len(scores)
             variance_sum == VarianceSum(scores, mean, 1)
         IN  <<mean, Sqrt(variance_sum \div variance_divisor(Len(scores)))>>

(***************************************************************************)
(* The benchmark driver testDatasetCV and the parallel region of           *)
(* CrossValidator::validateSingleHyperparameter                            *)
(***************************************************************************)
\* std::vector<int> depths = {1, 2, 3, ...}: the first NumDepths of them
depths == [j \in 1..NumDepths |-> j]

\* the team of the parallel region: the master thread (thread 0) and
\* num_threads - 1 other threads; the code never asks a thread for its
\* number, so the threads other than the master are told apart by nothing
Roles == {"master", "worker"}

FoldIds == 0..(k_folds_ - 1)

Todo == [st |-> "todo", th |-> "none", acc |-> 0]

Done == [st |-> "done", th |-> "none", acc |-> 0]

\* no call of validateSingleHyperparameter is in progress
CallIdle ==
    /\ vpc = "idle"
    /\ params = HyperparameterSet(0)
    /\ fold_scores = <<>>
    /\ iter = <<>>
    /\ completed_folds = 0
    /\ failure = "none"
    /\ train_count = <<>>
    /\ score_count = <<>>
    /\ writes = {}
    /\ slot_writes = <<>>
    /\ cf_threads = {}
    /\ trained = <<>>

\* no warm-up result is held, and none of gridSearchCV, getBestParams,
\* calculateMeanStd and accuracy is being applied
NoCaller ==
    /\ warm = <<>>
    /\ prev_folds = <<>>
    /\ param_grid = <<>>
    /\ arg = <<>>
    /\ ret = <<>>

\* iterations of the loop that a thread of role r is executing
Running(r) == {f \in DOMAIN iter : iter[f].th = r}

\* a thread of role r is free to start an iteration
Idle(r) ==
    IF r = "master" THEN Running(r) = {}
    ELSE Cardinality(Running(r)) < num_threads - 1

\* faulty variant: a loop with nowait, the threads do not join before the aggregation
BarrierOpen_nowait == \A f \in DOMAIN iter : iter[f].st # "todo"

\* the implicit barrier at the end of the parallel for: every iteration of
\* the loop has run to its end
BarrierOpen == \A f \in DOMAIN iter : iter[f].st = "done"

\* faulty variant: every iteration stores to the first slot
ScoreSlot_shared(f) == 0

\* faulty variant: the iterations store to distinct slots, but not to their own
ScoreSlot_next(f) == (f + 1) % k_folds_

\* faulty variant: the scores are stored back to front
ScoreSlot_reversed(f) == k_folds_ - 1 - f

\* the slot of fold_scores the iteration of fold f stores to
ScoreSlot(f) == f

\* faulty variant: the last iteration is never handed out
Unclaimed_but_last(f) == iter[f].st = "todo" /\ f < k_folds_ - 1

\* faulty variant: an iteration that has ended is handed out again
Unclaimed_again(f) == iter[f].st \in {"todo", "done"}

\* the work-sharing loop hands out an iteration that no thread has started
Unclaimed(f) == iter[f].st = "todo"

\* faulty variant: the row count is not asserted
ValidFoldCount_any_rows(k, n) == k > 1

\* faulty variant: a single fold is accepted
ValidFoldCount_weak(k, n) == k > 0 /\ n >= k

\* assert(k_folds > 1); assert(data.length() >= k_folds);
ValidFoldCount(k, n) == k > 1 /\ n >= k

\* faulty variant: every tree gets the seed of the validator
TreeSeed_same(f) == random_seed_

\* the seed of the tree of fold f
TreeSeed(f) == random_seed_ + f

\* faulty variant: every thread of the team executes the block
ExecutesMasterBlock_any(th) == TRUE

\* #pragma omp master: the block is executed by the master thread of the team
ExecutesMasterBlock(th) == th = "master"

\* faulty variant: the folds are shuffled anew for every depth
FoldSeed_per_depth == random_seed_ + depth_i

\* the seed argument of createKFolds: createKFolds(data_, k_folds_, random_seed_)
FoldSeed == random_seed_

\* faulty variant: one feature is drawn at every node
TreeMtry_one(f) == 1

\* the mtry argument of the tree of fold f: -1, every feature is a candidate
TreeMtry(f) == -1

\* faulty variant: the iteration moves its two subsets out of the shared folds
folds_after_iteration_moved(fs, f) == [fs EXCEPT ![f + 1] = <<<<>>, <<>>>>]

\* DataFrame train_data = folds[fold][0]; DataFrame val_data = folds[fold][1];
\* the iteration works on copies, the shared folds stay as they are
folds_after_iteration(fs, f) == fs

Init ==
    /\ \E n \in 1..MaxCVRows, hf \in BOOLEAN : data_ = LoadData(n, hf)
    /\ k_folds_ \in 0..MaxCVFolds
    /\ random_seed_ \in {0, MaxSeed}
    /\ num_threads \in {1, 2, MaxThreads}
    /\ pc = "ctor"
    /\ depth_i = 1
    /\ results = <<>>
    /\ folds = <<>>
    /\ CallIdle
    /\ NoCaller

\* CrossValidator cv(df, k, seed, false): the two assertions of the
\* constructor; a failed assertion aborts the process, it raises no error
Construct ==
    /\ pc = "ctor"
    /\ pc' = IF ValidFoldCount(k_folds_, Len(data_)) THEN "warmup" ELSE "aborted"
    /\ UNCHANGED <<validator, depth_i, results, folds, call_state, caller_state>>

\* validateDepth(depth) -> validateSingleHyperparameter(HyperparameterSet(depth)):
\* the folds, the pre-sized fold_scores, and the team of the parallel region
VSH_Begin ==
    /\ pc \in {"warmup", "measure"}
    /\ vpc = "idle"
    /\ params' = HyperparameterSet(depths[depth_i])
    /\ folds' = createKFolds(data_, k_folds_, FoldSeed)
    /\ fold_scores' = [f \in 1..k_folds_ |-> 0]
    /\ iter' = [f \in FoldIds |-> Todo]
    /\ train_count' = [f \in FoldIds |-> 0]
    /\ score_count' = [f \in FoldIds |-> 0]
    /\ writes' = {}
    /\ slot_writes' = [f \in 1..k_folds_ |-> 0]
    /\ trained' = [f \in FoldIds |-> <<>>]
    /\ vpc' = "parallel"
    /\ UNCHANGED <<validator, pc, depth_i, results, completed_folds, failure, cf_threads,
                   caller_state>>

\* an idle thread of the team starts an iteration of the loop (train_data =
\* folds[fold][0]; val_data = folds[fold][1]): the schedule of the loop gives
\* every iteration to exactly one thread
TakeFold(r, f) ==
    /\ vpc = "parallel" /\ pc # "terminated"
    /\ Idle(r)
    /\ Unclaimed(f)
    /\ iter' = [iter EXCEPT ![f] = [Todo EXCEPT !.st = "train", !.th = r]]
    /\ UNCHANGED <<validator, pc, depth_i, results, vpc, params, folds, fold_scores,
                   completed_folds, failure, train_count, score_count, writes,
                   slot_writes, cf_threads, trained, caller_state>>

\* DecisionTree tree(train_data, ..., random_seed_ + fold);
\* predictions = tree.predict(&val_data); fold_accuracy = accuracy(...).
\* An error raised by the training leaves the structured block of the
\* parallel region, which no handler encloses: the run ends in std::terminate
TrainAndScore(f) ==
    /\ vpc = "parallel" /\ pc # "terminated"
    /\ iter[f].st = "train"
    /\ LET train_data == folds[f + 1][1]
           val_data == folds[f + 1][2]
           err == BuildError(train_data, params)
       IN  IF err = "none"
           THEN LET tree == DecisionTree(train_data, params, TreeMtry(f), TreeSeed(f))
                    predictions == predict(tree, val_data)
                    true_labels == col_label(val_data)
                IN  /\ iter' = [iter EXCEPT ![f].st = "write",
                                            ![f].acc = accuracy(true_labels, predictions)]
                    /\ train_count' = [train_count EXCEPT ![f] = @ + 1]
                    /\ score_count' = [score_count EXCEPT ![f] = @ + 1]
                    /\ trained' = [trained EXCEPT ![f] =
                                      [train |-> train_data, hp |-> params,
                                       seed |-> TreeSeed(f), val |-> val_data]]
                    /\ UNCHANGED <<pc, failure>>
           ELSE /\ failure' = err
                /\ pc' = "terminated"
                /\ UNCHANGED <<iter, train_count, score_count, trained>>
    /\ folds' = folds_after_iteration(folds, f)
    /\ UNCHANGED <<validator, depth_i, results, vpc, params, fold_scores,
                   completed_folds, writes, slot_writes, cf_threads, caller_state>>

\* fold_scores[fold] = fold_accuracy; after it the master block for the
\* master thread, the end of the iteration for every other thread
Write(f) ==
    /\ vpc = "parallel" /\ pc # "terminated"
    /\ iter[f].st = "write"
    /\ fold_scores' = [fold_scores EXCEPT ![ScoreSlot(f) + 1] = iter[f].acc]
    /\ writes' = writes \cup {<<f, ScoreSlot(f)>>}
    /\ slot_writes' = [slot_writes EXCEPT ![ScoreSlot(f) + 1] = @ + 1]
    /\ iter' = [iter EXCEPT ![f] = IF ExecutesMasterBlock(iter[f].th)
                                   THEN [@ EXCEPT !.st = "master", !.acc = 0]
                                   ELSE Done]
    /\ UNCHANGED <<validator, pc, depth_i, results, vpc, params, folds,
                   completed_folds, failure, train_count, score_count, cf_threads,
                   trained, caller_state>>

\* #pragma omp master { static int completed_folds = 0; completed_folds++; }
MasterBlock(f) ==
    /\ vpc = "parallel" /\ pc # "terminated"
    /\ iter[f].st = "master"
    /\ completed_folds' = IF completed_folds < MaxCompleted
                          THEN completed_folds + 1 ELSE completed_folds
    /\ cf_threads' = cf_threads \cup {iter[f].th}
    /\ iter' = [iter EXCEPT ![f] = Done]
    /\ UNCHANGED <<validator, pc, depth_i, results, vpc, params, folds, fold_scores,
                   failure, train_count, score_count, writes, slot_writes, trained,
                   caller_state>>

\* the end of the parallel region: the threads of the team join
Join ==
    /\ vpc = "parallel" /\ pc # "terminated"
    /\ BarrierOpen
    /\ vpc' = "joined"
    /\ UNCHANGED <<validator, pc, depth_i, results, params, folds, fold_scores, iter,
                   completed_folds, failure, train_count, score_count, writes,
                   slot_writes, cf_threads, trained, caller_state>>

\* the locals of validateSingleHyperparameter (and what is recorded of
\* them) end with the call
LocalsGone ==
    /\ params' = HyperparameterSet(0)
    /\ folds' = <<>>
    /\ fold_scores' = <<>>
    /\ iter' = <<>>
    /\ train_count' = <<>>
    /\ score_count' = <<>>
    /\ writes' = {}
    /\ slot_writes' = <<>>
    /\ trained' = <<>>

\* mean_std = calculateMeanStd(fold_scores); return CVResult(...); then the
\* driver: the result of the warm-up call is dropped, the result of the
\* measured call is pushed and the loop goes to the next depth.  The static
\* completed_folds outlives the call
VSH_Return ==
    /\ vpc = "joined"
    /\ LET mean_std == calculateMeanStd(fold_scores)
           cv_result == CVResult("", params.max_depth, 0, mean_std[1], mean_std[2],
                                 fold_scores)
       IN  IF pc = "warmup"
           THEN /\ pc' = "measure"
                /\ warm' = cv_result
                /\ UNCHANGED <<results, depth_i>>
           ELSE /\ results' = Append(results, cv_result)
                /\ depth_i' = depth_i + 1
                /\ pc' = IF depth_i + 1 > NumDepths THEN "returned" ELSE "warmup"
                /\ UNCHANGED warm
    /\ prev_folds' = folds
    /\ vpc' = "idle"
    /\ LocalsGone
    /\ UNCHANGED <<validator, completed_folds, failure, cf_threads, param_grid, arg, ret>>

Next ==
    \/ Construct
    \/ VSH_Begin
    \/ \E r \in Roles, f \in DOMAIN iter : TakeFold(r, f)
    \/ \E f \in DOMAIN iter : TrainAndScore(f)
    \/ \E f \in DOMAIN iter : Write(f)
    \/ \E f \in DOMAIN iter : MasterBlock(f)
    \/ Join
    \/ VSH_Return

Spec == Init /\ [][Next]_vars

(***************************************************************************)
(* Sequential mode (section 5 of the specification; the serial cv.cpp is   *)
(* not among the sources): the folds are trained and scored one at a time, *)
(* in fold order, on a single thread.                                      *)
(***************************************************************************)
RECURSIVE SequentialScores(_, _, _, _)
SequentialScores(the_folds, hp, seed, fold) ==
    IF fold >= Len(the_folds) THEN <<>>
    ELSE LET train_data == the_folds[fold + 1][1]
             val_data == the_folds[fold + 1][2]
             tree == DecisionTree(train_data, hp, TreeMtry(fold), seed + fold)
         IN  <<accuracy(col_label(val_data), predict(tree, val_data))>>
             \o SequentialScores(the_folds, hp, seed, fold + 1)

SequentialCV(data, k, seed, hp) ==
    calculateMeanStd(SequentialScores(createKFolds(data, k, seed), hp, seed, 0))

(***************************************************************************)
(* SpecFolds: createKFolds applied to every dataset, k and seed in bounds  *)
(***************************************************************************)
InitFolds ==
    /\ \E n \in 2..MaxRows : data_ = LoadData(n, TRUE)
    /\ k_folds_ \in 2..MaxK
    /\ k_folds_ <= Len(data_)
    /\ random_seed_ \in 0..MaxSeed
    /\ num_threads = 1
    /\ folds = <<>>
    /\ pc = "call"
    /\ depth_i = 1
    /\ results = <<>>
    /\ CallIdle
    /\ NoCaller

CallCreateKFolds ==
    /\ pc = "call"
    /\ folds' = createKFolds(data_, k_folds_, random_seed_)
    /\ pc' = "returned"
    /\ UNCHANGED <<validator, depth_i, results, call_state, caller_state>>

NextFolds == CallCreateKFolds

SpecFolds == InitFolds /\ [][NextFolds]_vars

(***************************************************************************)
(* CrossValidator::gridSearchCV, validateDepths and getBestParams          *)
(***************************************************************************)
\* longest grid (and list of depths) handed to gridSearchCV / validateDepths
MaxGrid == 2
\* depths 0 .. MaxGridDepth of the hyperparameter sets of a grid
MaxGridDepth == 1
\* rows of the dataset of the validator a grid is searched on
MaxGridRows == 5

\* the sequences over S of length at most n
SeqsUpTo(S, n) == UNION {[1..m -> S] : m \in 0..n}

\* the hyperparameter sets a grid is made of: every depth in bounds, with
\* the default min_obs and loss, with a non-default min_obs, and with a
\* non-default loss
GridEntries ==
    {HyperparameterSetOf(d, ml[1], ml[2]) :
        d \in 0..MaxGridDepth,
        ml \in {<<1, "gini_impurity">>, <<2, "gini_impurity">>, <<1, "variance">>}}

\* the CVResult validateSingleHyperparameter returns: the scores are in fold
\* order under every schedule of the parallel region
validateSingleHyperparameter(data, k, seed, hp) ==
    LET scores == SequentialScores(createKFolds(data, k, seed), hp, seed, 0)
        mean_std == calculateMeanStd(scores)
    IN  CVResult("", hp.max_depth, 0, mean_std[1], mean_std[2], scores)

\* the error of the first fold whose training fails, "none" if none fails
RECURSIVE CallError(_, _, _)
CallError(the_folds, hp, fold) ==
    IF fold >= Len(the_folds) THEN "none"
    ELSE IF BuildError(the_folds[fold + 1][1], hp) # "none"
         THEN BuildError(the_folds[fold + 1][1], hp)
         ELSE CallError(the_folds, hp, fold + 1)

\* faulty variant: the new result is put in front
push_front(v, x) == <<x>> \o v

\* results.push_back(result)
push_back(v, x) == Append(v, x)

\* faulty variant: a result as good as the best so far replaces it
better_score_or_equal(score, best_score) == score >= best_score

\* if (result.mean_cv_accuracy > best_score)
better_score(score, best_score) == score > best_score

\* the loop of getBestParams over cv_results, from element i on
RECURSIVE best_depth(_, _, _, _)
best_depth(cv_results, i, score, depth) ==
    IF i > Len(cv_results) THEN depth
    ELSE IF better_score(cv_results[i].mean_cv_accuracy, score)
         THEN best_depth(cv_results, i + 1, cv_results[i].mean_cv_accuracy,
                         cv_results[i].max_depth)
         ELSE best_depth(cv_results, i + 1, score, depth)

\* the depth of the best result is all that is kept of it:
\* return HyperparameterSet(best_depth)
getBestParams(cv_results) ==
    IF Len(cv_results) = 0 THEN DefaultHyperparameterSet
    ELSE HyperparameterSet(best_depth(cv_results, 1, cv_results[1].mean_cv_accuracy,
                                      cv_results[1].max_depth))

\* a caller holds a validator and either a grid for gridSearchCV or a list
\* of depths (arg) for validateDepths
InitGrid ==
    /\ \E hf \in BOOLEAN : data_ = LoadData(MaxGridRows, hf)
    /\ k_folds_ = 3
    /\ random_seed_ = 0
    /\ num_threads = 1
    /\ pc \in {"validateDepths", "gridSearchCV"}
    /\ arg \in IF pc = "validateDepths" THEN SeqsUpTo(0..MaxGridDepth, MaxGrid)
               ELSE {<<>>}
    /\ param_grid \in IF pc = "gridSearchCV" THEN SeqsUpTo(GridEntries, MaxGrid)
                      ELSE {<<>>}
    /\ ret = <<>>
    /\ warm = <<>>
    /\ prev_folds = <<>>
    /\ depth_i = 1
    /\ results = <<>>
    /\ folds = <<>>
    /\ CallIdle

\* validateDepths: param_grid.push_back(HyperparameterSet(depth)) for every
\* depth, then gridSearchCV(param_grid)
ValidateDepths ==
    /\ pc = "validateDepths"
    /\ param_grid' = [j \in 1..Len(arg) |-> HyperparameterSet(arg[j])]
    /\ pc' = "gridSearchCV"
    /\ UNCHANGED <<validator, depth_i, results, folds, call_state, warm, prev_folds, arg, ret>>

\* one iteration of the loop of gridSearchCV: the call of
\* validateSingleHyperparameter and the push_back of its result; an error
\* of a fold's training ends the run inside the call
GridSearchStep ==
    /\ pc = "gridSearchCV"
    /\ depth_i <= Len(param_grid)
    /\ LET hp == param_grid[depth_i]
           err == CallError(createKFolds(data_, k_folds_, random_seed_), hp, 0)
       IN  IF err = "none"
           THEN /\ results' = push_back(results, validateSingleHyperparameter(
                                            data_, k_folds_, random_seed_, hp))
                /\ depth_i' = depth_i + 1
                /\ UNCHANGED <<pc, failure>>
           ELSE /\ failure' = err
                /\ pc' = "terminated"
                /\ UNCHANGED <<results, depth_i>>
    /\ UNCHANGED <<validator, folds, vpc, params, fold_scores, iter, completed_folds,
                   train_count, score_count, writes, slot_writes, cf_threads,
                   trained, caller_state>>

\* return results; the caller goes on to getBestParams
GridSearchReturn ==
    /\ pc = "gridSearchCV"
    /\ depth_i > Len(param_grid)
    /\ pc' = "getBestParams"
    /\ UNCHANGED <<validator, depth_i, results, folds, call_state, caller_state>>

CallGetBestParams ==
    /\ pc = "getBestParams"
    /\ ret' = getBestParams(results)
    /\ pc' = "returned"
    /\ UNCHANGED <<validator, depth_i, results, folds, call_state, warm, prev_folds,
                   param_grid, arg>>

NextGrid ==
    \/ ValidateDepths
    \/ GridSearchStep
    \/ GridSearchReturn
    \/ CallGetBestParams

SpecGrid == InitGrid /\ [][NextGrid]_vars

(***************************************************************************)
(* SpecLive: the last turn of the driver's loop (the warm-up call and the  *)
(* measured call of the last depth) on a dataset of MaxCVFolds rows and    *)
(* fewer folds than rows, with the threads of the team scheduled: while a  *)
(* step of the program is possible, some step is eventually taken.         *)
(***************************************************************************)
\* the turns of the loop before the last one
EarlierDepths == NumDepths - 1

\* the static counter after the earlier turns: a single thread has run every
\* fold of every call, the master of a larger team any number of them
EarlierCompleted ==
    IF EarlierDepths = 0 THEN {0}
    ELSE IF num_threads = 1
         THEN {IF 2 * k_folds_ * EarlierDepths < MaxCompleted
               THEN 2 * k_folds_ * EarlierDepths ELSE MaxCompleted}
         ELSE 0..MaxCompleted

InitLive ==
    /\ data_ = LoadData(MaxCVFolds, TRUE)
    /\ k_folds_ \in 2..(MaxCVFolds - 1)
    /\ random_seed_ = 0
    /\ num_threads \in {1, 2, MaxThreads}
    /\ pc = "warmup"
    /\ depth_i = NumDepths
    /\ results = [j \in 1..EarlierDepths |->
                     validateSingleHyperparameter(data_, k_folds_, random_seed_,
                                                  HyperparameterSet(depths[j]))]
    /\ warm = IF EarlierDepths = 0 THEN <<>> ELSE results[EarlierDepths]
    /\ prev_folds = IF EarlierDepths = 0 THEN <<>>
                    ELSE createKFolds(data_, k_folds_, random_seed_)
    /\ vpc = "idle"
    /\ params = HyperparameterSet(0)
    /\ folds = <<>>
    /\ fold_scores = <<>>
    /\ iter = <<>>
    /\ failure = "none"
    /\ completed_folds \in EarlierCompleted
    /\ cf_threads = IF completed_folds = 0 THEN {} ELSE {"master"}
    /\ train_count = <<>>
    /\ score_count = <<>>
    /\ writes = {}
    /\ slot_writes = <<>>
    /\ trained = <<>>
    /\ param_grid = <<>>
    /\ arg = <<>>
    /\ ret = <<>>

NextLive ==
    \/ VSH_Begin
    \/ \E r \in Roles, f \in DOMAIN iter : TakeFold(r, f)
    \/ \E f \in DOMAIN iter : TrainAndScore(f)
    \/ \E f \in DOMAIN iter : Write(f)
    \/ \E f \in DOMAIN iter : MasterBlock(f)
    \/ Join
    \/ VSH_Return

Fairness == WF_vars(NextLive)

SpecLive == InitLive /\ [][NextLive]_vars /\ Fairness

(***************************************************************************)
(* SpecStats: calculateMeanStd applied to every score vector in bounds     *)
(***************************************************************************)
\* longest vector of scores handed to calculateMeanStd in SpecStats
MaxScores == 3

\* accuracies 0, 1/3, 1/2 and 1
ScoreValues == {0, Scale \div 3, Scale \div 2, Scale}

\* no validator and no call of validateSingleHyperparameter is involved
NoValidator ==
    /\ data_ = <<>>
    /\ k_folds_ = 0
    /\ random_seed_ = 0
    /\ num_threads = 1
    /\ depth_i = 1
    /\ results = <<>>
    /\ folds = <<>>
    /\ CallIdle
    /\ warm = <<>>
    /\ prev_folds = <<>>
    /\ param_grid = <<>>

InitStats ==
    /\ arg \in SeqsUpTo(ScoreValues, MaxScores)
    /\ ret = <<>>
    /\ pc = "calculateMeanStd"
    /\ NoValidator

CallCalculateMeanStd ==
    /\ pc = "calculateMeanStd"
    /\ ret' = calculateMeanStd(arg)
    /\ pc' = "returned"
    /\ UNCHANGED <<validator, depth_i, results, folds, call_state, warm, prev_folds,
                   param_grid, arg>>

NextStats == CallCalculateMeanStd

SpecStats == InitStats /\ [][NextStats]_vars

(***************************************************************************)
(* SpecAccuracy: accuracy applied to every pair of label sequences of      *)
(* equal length in bounds (metrics.cpp is not among the sources: accuracy  *)
(* follows section 4.3 of the specification)                               *)
(***************************************************************************)
\* longest sequence of labels handed to accuracy in SpecAccuracy
MaxLabels == 3

\* class labels
LabelValues == {0, 1}

\* pairs of non-empty label sequences of equal length
LabelPairs ==
    UNION {([1..m -> LabelValues]) \X ([1..m -> LabelValues]) : m \in 1..MaxLabels}

InitAccuracy ==
    /\ arg \in LabelPairs
    /\ ret = <<>>
    /\ pc = "accuracy"
    /\ NoValidator

\* double fold_accuracy = accuracy(true_labels, predictions);
CallAccuracy ==
    /\ pc = "accuracy"
    /\ ret' = accuracy(arg[1], arg[2])
    /\ pc' = "returned"
    /\ UNCHANGED <<validator, depth_i, results, folds, call_state, warm, prev_folds,
                   param_grid, arg>>

NextAccuracy == CallAccuracy

SpecAccuracy == InitAccuracy /\ [][NextAccuracy]_vars

(***************************************************************************)
(* SpecTree: the tree of the benchmark driver testDataset (a tree is       *)
(* built from train_data, then it predicts), for every training dataset    *)
(* in bounds of one feature and a binary label, and for the depths and     *)
(* min_obs values below.  The tree depends on the multiset of the training *)
(* rows only, so the training rows are taken in sorted order; the data     *)
(* that is predicted comes in any order.                                   *)
(***************************************************************************)
\* the largest number of training rows
MaxTreeRows == 4
\* the feature values are 0..MaxFeatureValue
MaxFeatureValue == 2

\* DecisionTree tree(train_data, false, "gini_impurity", -1, depth, -1, 1, -1, 42)
benchmark_seed == 42

\* a row of feature value t \div 2 and of label t % 2
RowKinds == 0..(2 * (MaxFeatureValue + 1) - 1)

TreeFrame(s) ==
    [i \in 1..Len(s) |-> [id |-> i, x |-> <<s[i] \div 2>>, y |-> s[i] % 2]]

TreeFrames ==
    {TreeFrame(s) : s \in {t \in SeqsUpTo(RowKinds, MaxTreeRows) :
                              \A i \in 1..(Len(t) - 1) : t[i] <= t[i + 1]}}

\* unbounded depth, a single leaf, and the depths 1 and 2
TreeDepths == {-1, 0, 1, 2}

MinObsValues == {1, 2, 3}

TreeParams ==
    {HyperparameterSetOf(d, m, "gini_impurity") : d \in TreeDepths, m \in MinObsValues}

Reverse(df) == [i \in 1..Len(df) |-> df[Len(df) + 1 - i]]

\* the data a tree predicts: the training rows in reverse order, or one row
\* of any feature value (the values between two training values included)
TestFrames(train_data) ==
    {Reverse(train_data)}
    \cup {<<[id |-> 1, x |-> <<v>>, y |-> 0]>> : v \in 0..(MaxFeatureValue + 1)}

InitTree ==
    /\ arg \in [train_data : TreeFrames, hp : TreeParams]
    /\ ret = <<>>
    /\ pc = "build"
    /\ NoValidator

\* DecisionTree tree(train_data, ...): the tree, or the error of build
BuildTree ==
    /\ pc = "build"
    /\ LET err == BuildError(arg.train_data, arg.hp)
       IN  IF err = "none"
           THEN /\ ret' = [tree |-> DecisionTree(arg.train_data, arg.hp, -1,
                                                 benchmark_seed),
                           test_data |-> <<>>, predictions |-> <<>>]
                /\ pc' = "built"
           ELSE /\ ret' = [error |-> err]
                /\ pc' = "failed"
    /\ UNCHANGED <<validator, depth_i, results, folds, call_state, warm, prev_folds,
                   param_grid, arg>>

\* DataVector predictions = tree.predict(&test_data)
Predict ==
    /\ pc = "built"
    /\ \E test_data \in TestFrames(arg.train_data) :
          ret' = [ret EXCEPT !.test_data = test_data,
                             !.predictions = predict(ret.tree, test_data)]
    /\ pc' = "predicted"
    /\ UNCHANGED <<validator, depth_i, results, folds, call_state, warm, prev_folds,
                   param_grid, arg>>

NextTree == BuildTree \/ Predict

SpecTree == InitTree /\ [][NextTree]_vars

(***************************************************************************)
(* Properties of createKFolds (checked under SpecFolds)                    *)
(***************************************************************************)
NumRows == Len(data_)

\* the identities of the rows of a frame
Ids(df) == {df[i].id : i \in 1..Len(df)}

ValidationOf(f) == folds[f][2]

TrainingOf(f) == folds[f][1]

\* the places <<fold, position>> of the validation subsets that hold row id
ValidationPlaces(id) ==
    {p \in (1..Len(folds)) \X (1..NumRows) :
        p[2] <= Len(ValidationOf(p[1])) /\ ValidationOf(p[1])[p[2]].id = id}

\* C1: createKFolds returns exactly k (training, validation) pairs; every
\* row of the dataset is in exactly one validation subset, exactly once; any
\* two validation subsets differ in size by at most 1.
C1_FoldCoverage ==
    pc = "returned" =>
        /\ Len(folds) = k_folds_
        /\ \A f \in 1..Len(folds) : Len(folds[f]) = 2
        /\ \A id \in Ids(data_) : Cardinality(ValidationPlaces(id)) = 1
        /\ \A f \in 1..Len(folds) : Ids(ValidationOf(f)) \subseteq Ids(data_)
        /\ \A f, g \in 1..Len(folds) :
              Len(ValidationOf(f)) - Len(ValidationOf(g)) \in {-1, 0, 1}

C1_Witness ==
    /\ pc = "returned"
    /\ NumRows = 11 /\ k_folds_ = 3
    /\ Len(ValidationOf(1)) = 4 /\ Len(ValidationOf(3)) = 3

\* size and start of block i (0-based) as the claim states them
BlockSize(i) == (NumRows \div k_folds_) + (IF i < NumRows % k_folds_ THEN 1 ELSE 0)

BlockStart(i) ==
    i * (NumRows \div k_folds_)
    + (IF i < NumRows % k_folds_ THEN i ELSE NumRows % k_folds_)

ShuffledRows == sample(data_, random_seed_)

ValidationSizes == [f \in 1..Len(folds) |-> Len(ValidationOf(f))]

\* C2: fold i's validation subset is the rows at shuffled positions
\* [start_i, start_i + size_i), size_i = floor(n/k) + 1 for i < n mod k and
\* floor(n/k) otherwise, start_i the sum of the sizes before it, the last
\* block ending at n; n=12, k=4 gives 3,3,3,3 and n=10, k=4 gives 3,3,2,2.
C2_ContiguousBlocks ==
    pc = "returned" =>
        /\ \A f \in 1..Len(folds) :
              ValidationOf(f) = SubSeq(ShuffledRows, BlockStart(f - 1) + 1,
                                       BlockStart(f - 1) + BlockSize(f - 1))
        /\ BlockStart(k_folds_ - 1) + BlockSize(k_folds_ - 1) = NumRows
        /\ (NumRows = 12 /\ k_folds_ = 4) => ValidationSizes = <<3, 3, 3, 3>>
        /\ (NumRows = 10 /\ k_folds_ = 4) => ValidationSizes = <<3, 3, 2, 2>>

C2_Witness ==
    /\ pc = "returned"
    /\ NumRows = 10 /\ k_folds_ = 4
    /\ ValidationSizes = <<3, 3, 2, 2>>
    /\ ShuffledRows # data_

\* the shuffled rows outside block i, in shuffled order
OtherBlocks(i) ==
    SubSeq(ShuffledRows, 1, BlockStart(i))
    \o SubSeq(ShuffledRows, BlockStart(i) + BlockSize(i) + 1, NumRows)

\* C3: in every fold the training and the validation subset have no row in
\* common and together hold each row of the dataset exactly once; the
\* training subset is the rows of all other blocks and has n - size_i rows.
C3_TrainValPartition ==
    pc = "returned" =>
        \A f \in 1..Len(folds) :
            /\ Ids(TrainingOf(f)) \cap Ids(ValidationOf(f)) = {}
            /\ Ids(TrainingOf(f)) \cup Ids(ValidationOf(f)) = Ids(data_)
            /\ Len(TrainingOf(f)) + Len(ValidationOf(f)) = NumRows
            /\ Len(TrainingOf(f)) = NumRows - BlockSize(f - 1)
            /\ TrainingOf(f) = OtherBlocks(f - 1)

C3_Witness ==
    /\ pc = "returned"
    /\ NumRows = 7 /\ k_folds_ = 3
    /\ Len(TrainingOf(1)) = 4 /\ Len(TrainingOf(2)) = 5 /\ Len(TrainingOf(3)) = 5

(***************************************************************************)
(* Properties of validateSingleHyperparameter and of the driver (Spec)     *)
(***************************************************************************)
\* C4: the iteration of fold i stores only to fold_scores[i]; no slot is
\* stored to twice; the only other variable written inside the parallel
\* region, completed_folds, is touched by the master thread alone.
C4_DisjointWrites ==
    /\ \A w \in writes : w[2] = w[1]
    /\ \A i \in DOMAIN slot_writes : slot_writes[i] <= 1
    /\ cf_threads \subseteq {"master"}

C4_Witness ==
    /\ vpc = "joined"
    /\ num_threads >= 2
    /\ writes = {<<f, f>> : f \in FoldIds}
    /\ k_folds_ = 3
    /\ cf_threads = {"master"}

\* C5: the aggregation (calculateMeanStd over fold_scores) can only start
\* when every one of the k iterations has ended and stored its score; while
\* an iteration is training, scoring or storing, the call is still inside
\* the parallel region.
C5_AggregateAfterJoin ==
    /\ vpc = "joined" =>
          \A f \in FoldIds : iter[f].st = "done" /\ slot_writes[f + 1] >= 1
    /\ (\E f \in DOMAIN iter : iter[f].st \in {"train", "write", "master"})
          => vpc = "parallel"

C5_Witness ==
    /\ vpc = "joined"
    /\ num_threads = 2 /\ k_folds_ = 3
    /\ \A f \in FoldIds : iter[f].st = "done"

\* the score of fold i under hyperparameters hp: the accuracy, on fold i's
\* validation subset, of the tree trained on fold i's training subset
FoldScore(i, hp) ==
    LET fs == createKFolds(data_, k_folds_, random_seed_)
        tree == DecisionTree(fs[i + 1][1], hp, TreeMtry(i), random_seed_ + i)
    IN  accuracy(col_label(fs[i + 1][2]), predict(tree, fs[i + 1][2]))

ScoresInFoldOrder(hp) == [i \in 1..k_folds_ |-> FoldScore(i - 1, hp)]

\* C6: for every worker count and every completion order, fold_scores of
\* the returned CVResult has length k and holds the score of fold i at
\* position i (stated of fold_scores when the threads have joined, and of
\* each CVResult when the driver has stored it).
C6_ScoresIndexedByFold ==
    /\ vpc = "joined" =>
          /\ Len(fold_scores) = k_folds_
          /\ fold_scores = ScoresInFoldOrder(params)
    /\ (vpc = "idle" /\ Len(results) >= 1) =>
          LET j == Len(results)
          IN  /\ Len(results[j].fold_scores) = k_folds_
              /\ results[j].fold_scores = ScoresInFoldOrder(HyperparameterSet(depths[j]))

C6_Witness ==
    /\ Len(results) >= 1
    /\ num_threads >= 2
    /\ \E i, j \in 1..k_folds_ :
          i < j /\ results[1].fold_scores[i] # results[1].fold_scores[j]

\* C7: run with 1, 2 or MaxThreads workers, the call returns the mean and
\* the standard deviation of the sequential run over folds 0..k-1, which do
\* not depend on the worker count (stated of each CVResult when the driver
\* has stored it).
C7_SameAsSequential ==
    (vpc = "idle" /\ Len(results) >= 1) =>
        LET j == Len(results)
            seq == SequentialCV(data_, k_folds_, random_seed_,
                                HyperparameterSet(depths[j]))
        IN  /\ results[j].mean_cv_accuracy = seq[1]
            /\ results[j].std_cv_accuracy = seq[2]

C7_Witness ==
    /\ pc = "returned"
    /\ Len(results) = NumDepths
    /\ num_threads = MaxThreads
    /\ results[1].std_cv_accuracy > 0

\* C8: in one call every fold index 0..k-1 is trained and scored exactly
\* once (never twice, and once when the threads join), with fewer workers
\* than folds, as many, or more.
C8_EachFoldOnce ==
    /\ \A f \in DOMAIN train_count : train_count[f] <= 1 /\ score_count[f] <= 1
    /\ vpc = "joined" =>
          /\ DOMAIN train_count = 0..(k_folds_ - 1)
          /\ \A f \in 0..(k_folds_ - 1) : train_count[f] = 1 /\ score_count[f] = 1

C8_Witness ==
    /\ vpc = "joined"
    /\ num_threads < k_folds_
    /\ \A f \in 0..(k_folds_ - 1) : train_count[f] = 1 /\ score_count[f] = 1

BadFoldCount == k_folds_ <= 1 \/ Len(data_) < k_folds_

C10_FailureReachesCaller ==
    failure # "none" => pc \in {"warmup", "measure", "returned"}

(***************************************************************************)
(* Properties of successive calls of validateSingleHyperparameter          *)
(***************************************************************************)
\* C11: calls of validateSingleHyperparameter carry no state from one call
\* to the next: whenever no call is in progress, every variable a call
\* writes is as it was before the first call, so that nothing written in one
\* call is there for a later call to read or change.
C11_NoStateBetweenCalls ==
    (vpc = "idle" /\ pc # "terminated") =>
        /\ params = HyperparameterSet(0)
        /\ folds = <<>>
        /\ fold_scores = <<>>
        /\ iter = <<>>
        /\ completed_folds = 0

(***************************************************************************)
(* Properties of gridSearchCV, validateDepths and getBestParams (SpecGrid) *)
(***************************************************************************)
\* C12: gridSearchCV returns exactly one CVResult per hyperparameter set of
\* the grid, in input order: result j is the cross-validation result of
\* param_grid[j]; validateDepths does the same for its depths, entry j of
\* its grid being HyperparameterSet(depths[j]).  (The scores are compared
\* where gridSearchCV returns the results.)
C12_ResultsInInputOrder ==
    /\ Len(results) <= Len(param_grid)
    /\ \A j \in 1..Len(results) : results[j].max_depth = param_grid[j].max_depth
    /\ pc \in {"getBestParams", "returned"} => Len(results) = Len(param_grid)
    /\ pc = "getBestParams" =>
          \A j \in 1..Len(results) :
              /\ results[j].fold_scores = ScoresInFoldOrder(param_grid[j])
              /\ <<results[j].mean_cv_accuracy, results[j].std_cv_accuracy>>
                    = calculateMeanStd(results[j].fold_scores)
    /\ (pc # "validateDepths" /\ arg # <<>>) =>
          /\ Len(param_grid) = Len(arg)
          /\ \A j \in 1..Len(arg) : param_grid[j] = HyperparameterSet(arg[j])
          /\ \A j \in 1..Len(results) : results[j].max_depth = arg[j]

C12_Witness ==
    /\ pc = "returned"
    /\ Len(results) = MaxGrid
    /\ results[1].max_depth # results[2].max_depth
    /\ results[1].mean_cv_accuracy # results[2].mean_cv_accuracy
    /\ param_grid[2].min_obs = 2

\* the first position of cv_results that holds the maximal mean accuracy
BestIndex(cv_results) ==
    CHOOSE i \in 1..Len(cv_results) :
        /\ \A j \in 1..Len(cv_results) :
              cv_results[j].mean_cv_accuracy <= cv_results[i].mean_cv_accuracy
        /\ \A j \in 1..(i - 1) :
              cv_results[j].mean_cv_accuracy < cv_results[i].mean_cv_accuracy

\* C13: for a non-empty result sequence getBestParams selects the result
\* with the maximal mean accuracy, the first of them in input order when
\* several share the maximum: the depth it returns is the depth of that
\* result.
C13_FirstMaximum ==
    (pc = "returned" /\ results # <<>>) =>
        \E i \in 1..Len(results) :
            /\ \A j \in 1..Len(results) :
                  results[j].mean_cv_accuracy <= results[i].mean_cv_accuracy
            /\ \A j \in 1..(i - 1) :
                  results[j].mean_cv_accuracy < results[i].mean_cv_accuracy
            /\ ret.max_depth = results[i].max_depth

C13_Witness ==
    /\ pc = "returned"
    /\ \E i, j \in 1..Len(results) :
          /\ i < j
          /\ i = BestIndex(results)
          /\ results[j].mean_cv_accuracy = results[i].mean_cv_accuracy
          /\ results[j].max_depth # results[i].max_depth
          /\ ret.max_depth = results[i].max_depth

\* C14: the hyperparameter set getBestParams returns for the results of
\* gridSearchCV over a grid is the grid entry of the best result, equal to
\* it in max_depth, min_obs and loss.
C14_ReturnsGridEntry ==
    (pc = "returned" /\ results # <<>>) => ret = param_grid[BestIndex(results)]

(***************************************************************************)
(* Properties of one call of validateSingleHyperparameter (Spec)           *)
(***************************************************************************)
\* C15: for each fold i the call trains exactly one tree, on fold i's
\* training subset, with the input hyperparameter set (max_depth, min_obs,
\* loss) and the tree seed random_seed_ + i, and scores that tree on fold
\* i's validation subset and on nothing else.
C15_OneTreePerFold ==
    /\ \A f \in DOMAIN trained :
          trained[f] # <<>> =>
              LET fs == createKFolds(data_, k_folds_, random_seed_)
              IN  /\ train_count[f] = 1
                  /\ score_count[f] = 1
                  /\ trained[f].train = fs[f + 1][1]
                  /\ trained[f].val = fs[f + 1][2]
                  /\ trained[f].hp = HyperparameterSet(depths[depth_i])
                  /\ trained[f].seed = random_seed_ + f
    /\ vpc = "joined" => \A f \in FoldIds : trained[f] # <<>>

C15_Witness ==
    /\ vpc = "joined"
    /\ k_folds_ = 3
    /\ random_seed_ = MaxSeed
    /\ depth_i = 2
    /\ trained[2].seed = MaxSeed + 2
    /\ trained[2].hp.max_depth = 2
    /\ Len(trained[2].val) = 1
    /\ Len(trained[2].train) = 3

(***************************************************************************)
(* Properties of calculateMeanStd (SpecStats)                              *)
(***************************************************************************)
\* the sum of f over the positions of a sequence
RECURSIVE SumOver(_, _)
SumOver(f, S) ==
    IF S = {} THEN 0
    ELSE LET i == CHOOSE i \in S : TRUE IN f[i] + SumOver(f, S \ {i})

\* C16: for k >= 1 scores the mean is their sum divided by k and the
\* standard deviation is the population one, the square root of the sum of
\* the squared deviations from the mean divided by k (not by k - 1); in
\* fixed point, each the largest value not above the exact one.
C16_MeanAndPopulationStd ==
    (pc = "returned" /\ Len(arg) >= 1) =>
        LET k == Len(arg)
            mean == ret[1]
            std == ret[2]
            total == SumOver(arg, 1..k)
            squares == SumOver([i \in 1..k |-> (arg[i] - mean) * (arg[i] - mean)], 1..k)
        IN  /\ k * mean <= total /\ total < k * (mean + 1)
            /\ std >= 0
            /\ std * std <= squares \div k
            /\ (std + 1) * (std + 1) > squares \div k

C16_Witness ==
    /\ pc = "returned"
    /\ arg = <<0, Scale \div 2, Scale>>
    /\ ret[1] = Scale \div 2
    /\ ret[2] = Sqrt((2 * (Scale \div 2) * (Scale \div 2)) \div 3)
    /\ ret[2] < Scale \div 2

(***************************************************************************)
(* Properties of repeated calls and of termination (Spec, SpecLive)        *)
(***************************************************************************)
\* C17: two calls on the same validator with the same hyperparameters
\* return the same fold_scores, mean and standard deviation: when the
\* measured call of a depth has returned, its result equals the result of
\* the warm-up call of that depth, at every worker count.
C17_WarmupEqualsMeasured ==
    (vpc = "idle" /\ pc \in {"warmup", "returned"} /\ Len(results) >= 1) =>
        LET measured == results[Len(results)]
        IN  /\ warm # <<>>
            /\ warm.max_depth = measured.max_depth
            /\ warm.fold_scores = measured.fold_scores
            /\ warm.mean_cv_accuracy = measured.mean_cv_accuracy
            /\ warm.std_cv_accuracy = measured.std_cv_accuracy

C17_Witness ==
    /\ pc = "returned"
    /\ num_threads = 2
    /\ k_folds_ = 3
    /\ warm.fold_scores = results[NumDepths].fold_scores
    /\ warm.std_cv_accuracy > 0
    /\ completed_folds >= 2

\* the next step of the iteration of fold f
IterationStep(f) == TrainAndScore(f) \/ Write(f) \/ MasterBlock(f)

C19_DataAndFoldsReadOnly ==
    /\ data_ = LoadData(Len(data_), NumFeatures(data_) >= 1)
    /\ vpc \in {"parallel", "joined"} =>
          /\ folds = createKFolds(data_, k_folds_, random_seed_)
          /\ \A f \in 1..Len(folds) :
                Ids(folds[f][1]) \cup Ids(folds[f][2]) = Ids(data_)

C19_Witness ==
    /\ vpc = "joined"
    /\ num_threads >= 2
    /\ k_folds_ = 3
    /\ Len(data_) = MaxCVRows
    /\ \A f \in FoldIds : train_count[f] = 1 /\ trained[f].train = folds[f + 1][1]
    /\ folds = createKFolds(data_, k_folds_, random_seed_)

(***************************************************************************)
(* Properties of accuracy (SpecAccuracy)                                   *)
(***************************************************************************)
\* C20: for two label sequences of equal length, accuracy is the fraction
\* of the positions where they match (in fixed point, the largest value not
\* above it); it is in [0, 1], and it is 1 exactly when the predictions
\* equal the true labels at every position.
C20_AccuracyIsMatchFraction ==
    pc = "returned" =>
        LET true_labels == arg[1]
            predictions == arg[2]
            n == Len(true_labels)
            matches == SumOver([i \in 1..n |->
                                   IF true_labels[i] = predictions[i] THEN 1 ELSE 0],
                               1..n)
        IN  /\ 0 <= ret /\ ret <= Scale
            /\ ret * n <= matches * Scale
            /\ matches * Scale < (ret + 1) * n
            /\ (ret = Scale) <=> (\A i \in 1..n : true_labels[i] = predictions[i])

C20_Witness ==
    /\ pc = "returned"
    /\ arg = <<(<<0, 1, 1>>), (<<0, 1, 0>>)>>
    /\ ret = (2 * Scale) \div 3

(***************************************************************************)
(* Properties of the Decision Tree Engine (SpecTree)                       *)
(***************************************************************************)
\* the rows of df that the test of an Internal node sends to its left child
\* (feature value <= threshold) and to its right child (feature value > threshold)
RowsLeft(df, node) == SelectSeq(df, LAMBDA r : 2 * r.x[node.feature] <= node.thr2)

RowsRight(df, node) == SelectSeq(df, LAMBDA r : 2 * r.x[node.feature] > node.thr2)

\* every node of a tree with the row subset of df that reaches it and its depth
RECURSIVE Partitions(_, _, _)
Partitions(node, df, depth) ==
    {[node |-> node, rows |-> df, depth |-> depth]}
    \cup (IF node.leaf THEN {}
          ELSE Partitions(node.left, RowsLeft(df, node), depth + 1)
               \cup Partitions(node.right, RowsRight(df, node), depth + 1))

\* the nodes of the built tree with the training rows they were built from
BuiltPartitions == Partitions(ret.tree, arg.train_data, 0)

TreeBuilt == pc \in {"built", "predicted"}

Pure(rows) == Len(rows) >= 1 /\ \A i \in 1..Len(rows) : rows[i].y = rows[1].y

\* C21: during tree construction a row subset whose labels are all the same
\* value always yields a Leaf (it is never split), and the prediction of that
\* Leaf is that label.
C21_PureSubsetIsLeaf ==
    TreeBuilt =>
        \A p \in BuiltPartitions :
            Pure(p.rows) => (p.node.leaf /\ p.node.pred = p.rows[1].y)

\* a tree with a split, one of whose partitions holds two or more rows, all
\* of label 1, and is a Leaf
C21_Witness ==
    /\ TreeBuilt
    /\ ~ret.tree.leaf
    /\ \E p \in BuiltPartitions :
          /\ Pure(p.rows) /\ Len(p.rows) >= 2 /\ p.rows[1].y = 1
          /\ p.node.leaf /\ p.node.pred = 1

\* C22: in every tree produced by build no Leaf represents a partition of
\* fewer than min_obs_per_leaf training rows, unless the whole training
\* dataset has fewer than 2 * min_obs_per_leaf rows.
C22_LeavesHoldMinObs ==
    (TreeBuilt /\ Len(arg.train_data) >= 2 * arg.hp.min_obs) =>
        \A p \in BuiltPartitions :
            p.node.leaf => Len(p.rows) >= arg.hp.min_obs

\* a tree built with min_obs = 2 that has a split, and a Leaf of exactly two rows
C22_Witness ==
    /\ TreeBuilt
    /\ arg.hp.min_obs = 2
    /\ Len(arg.train_data) >= 4
    /\ ~ret.tree.leaf
    /\ \E p \in BuiltPartitions : p.node.leaf /\ Len(p.rows) = 2

\* n^2 * (gini impurity) of a row subset with the labels 0 and 1
GiniTimesSquare(rows) ==
    LET ones == Cardinality({i \in 1..Len(rows) : rows[i].y = 1})
        zeros == Len(rows) - ones
    IN  Len(rows) * Len(rows) - ones * ones - zeros * zeros

\* the test "feature j <= t2 / 2" splits df into two non-empty partitions
\* whose size-weighted impurity is below the impurity of df
SplitReduces(df, j, t2) ==
    LET l == SelectSeq(df, LAMBDA r : 2 * r.x[j] <= t2)
        r == SelectSeq(df, LAMBDA r : 2 * r.x[j] > t2)
    IN  /\ Len(l) >= 1 /\ Len(r) >= 1
        /\ (GiniTimesSquare(l) * Len(r) + GiniTimesSquare(r) * Len(l)) * Len(df)
               < GiniTimesSquare(df) * Len(l) * Len(r)

\* some single split of df has a positive loss reduction
SomeSplitReduces(df) ==
    \E j \in 1..NumFeatures(df), t2 \in 0..(2 * MaxFeatureValue) : SplitReduces(df, j, t2)

\* C23: with max_depth bounded to d, build never produces a tree of height
\* greater than d; with max_depth = 1 and min_obs_per_leaf = 1 the tree has
\* height 1 and size 3 (root plus two leaves) when the best single split has
\* a positive loss reduction, and height 0 and size 1 when no feature
\* separates any labels (no split reduces the loss).
C23_HeightWithinMaxDepth ==
    TreeBuilt =>
        /\ arg.hp.max_depth >= 0 => getHeight(ret.tree) <= arg.hp.max_depth
        /\ (arg.hp.max_depth = 1 /\ arg.hp.min_obs = 1) =>
              IF SomeSplitReduces(arg.train_data)
              THEN getHeight(ret.tree) = 1 /\ getSize(ret.tree) = 3
              ELSE getHeight(ret.tree) = 0 /\ getSize(ret.tree) = 1

\* max_depth = 1, min_obs = 1: a root and two leaves, one of which still
\* holds both labels (only the depth bound keeps it from being split)
C23_Witness ==
    /\ TreeBuilt
    /\ arg.hp.max_depth = 1 /\ arg.hp.min_obs = 1
    /\ getHeight(ret.tree) = 1 /\ getSize(ret.tree) = 3
    /\ \E p \in BuiltPartitions :
          p.node.leaf /\ ~Pure(p.rows) /\ SomeSplitReduces(p.rows)

\* the leaves of a tree that a row reaches when at every Internal node it
\* may go left if its feature value is <= the threshold and right if its
\* feature value is > the threshold; a leaf is named by the path to it
RECURSIVE LeavesReached(_, _, _)
LeavesReached(node, row, path) ==
    IF node.leaf THEN {[path |-> path, pred |-> node.pred]}
    ELSE (IF 2 * row.x[node.feature] <= node.thr2
          THEN LeavesReached(node.left, row, Append(path, "left")) ELSE {})
         \cup
         (IF 2 * row.x[node.feature] > node.thr2
          THEN LeavesReached(node.right, row, Append(path, "right")) ELSE {})

\* C24: for every built tree and every dataset, predict returns exactly one
\* prediction per row, in row order, and every row reaches exactly one leaf
\* (the <= / > test of an Internal node sends the row to exactly one child and
\* the descent ends at a leaf).
C24_OnePredictionPerRow ==
    pc = "predicted" =>
        /\ Len(ret.predictions) = Len(ret.test_data)
        /\ \A i \in 1..Len(ret.test_data) :
              LET reached == LeavesReached(ret.tree, ret.test_data[i], <<>>)
              IN  /\ Cardinality(reached) = 1
                  /\ \A l \in reached : ret.predictions[i] = l.pred

\* a tree with a split has predicted several rows, not all alike: the first
\* row went right, a later row went left
C24_Witness ==
    /\ pc = "predicted"
    /\ ~ret.tree.leaf
    /\ Len(ret.test_data) >= 3
    /\ 2 * ret.test_data[1].x[ret.tree.feature] > ret.tree.thr2
    /\ 2 * ret.test_data[Len(ret.test_data)].x[ret.tree.feature] <= ret.tree.thr2
    /\ ret.predictions[1] # ret.predictions[Len(ret.test_data)]

\* C25: build on a degenerate dataset (an empty dataset or a single row) does
\* not fail: it returns a tree that consists of a single Leaf (size 1,
\* height 0).
C25_DegenerateDataGivesLeaf ==
    (pc # "build" /\ Len(arg.train_data) <= 1) =>
        /\ pc # "failed"
        /\ ret.tree.leaf
        /\ getSize(ret.tree) = 1
        /\ getHeight(ret.tree) = 0

\* a tree was built from a dataset without rows, with more than one
\* observation asked for per leaf
C25_Witness ==
    /\ TreeBuilt
    /\ Len(arg.train_data) = 0
    /\ arg.hp.min_obs >= 2
    /\ ret.tree.leaf

(***************************************************************************)
(* Properties of the tree seed, the folds and completed_folds (Spec)       *)
(***************************************************************************)
\* the seeds a tree may be given in place of random_seed_ + fold
SeedValues == 0..(MaxSeed + MaxCVFolds)

\* the score of fold f when its tree is built with the seed s instead
ScoreWithSeed(f, s) ==
    LET train_data == folds[f + 1][1]
        val_data == folds[f + 1][2]
        tree == DecisionTree(train_data, params, TreeMtry(f), s)
    IN  accuracy(col_label(val_data), predict(tree, val_data))

\* C26: validateSingleHyperparameter trains with feature subsampling
\* disabled (mtry = -1), so the tree of a fold and the fold's score do not
\* depend on the tree seed: with the seed of every fold's tree replaced by
\* any other value, fold_scores, mean and standard deviation are the same.
C26_ScoresIndependentOfTreeSeed ==
    vpc = "joined" =>
        \A s \in SeedValues :
            LET scores == [i \in 1..k_folds_ |-> ScoreWithSeed(i - 1, s)]
            IN  /\ fold_scores = scores
                /\ calculateMeanStd(fold_scores) = calculateMeanStd(scores)

\* a call on a dataset of two feature columns has joined, with trees that
\* split (depth 2) and with folds that scored differently
C26_Witness ==
    /\ vpc = "joined"
    /\ NumFeatures(data_) = 2
    /\ k_folds_ = 3
    /\ random_seed_ = MaxSeed
    /\ params.max_depth = 2
    /\ \E i, j \in 1..k_folds_ : fold_scores[i] # fold_scores[j]
    /\ ~DecisionTree(folds[1][1], params, TreeMtry(0), TreeSeed(0)).leaf

\* C27: every call of validateSingleHyperparameter on the same validator
\* recomputes the folds from the same (data_, k_folds_, random_seed_) and so
\* uses the identical fold partition: the hyperparameter sets of one run are
\* all evaluated on the same k (training, validation) pairs.
C27_SameFoldsInEveryCall ==
    (vpc \in {"parallel", "joined"} /\ prev_folds # <<>>) =>
        /\ Len(folds) = k_folds_
        /\ folds = prev_folds
        /\ \A f \in FoldIds :
              trained[f] # <<>> =>
                  /\ trained[f].train = prev_folds[f + 1][1]
                  /\ trained[f].val = prev_folds[f + 1][2]

\* the calls of the second depth have been reached: the folds of the call
\* before are held, the shuffle has moved rows, and a fold is trained
C27_Witness ==
    /\ vpc = "parallel"
    /\ depth_i = 2
    /\ k_folds_ = 3
    /\ random_seed_ = MaxSeed
    /\ prev_folds # <<>>
    /\ prev_folds # createKFolds(data_, k_folds_, 0)
    /\ \E f \in FoldIds : trained[f] # <<>>

\* C28: under the constructor's preconditions (k > 1 and row count n >= k)
\* every fold returned by createKFolds has a non-empty validation subset and
\* a non-empty training subset, so no tree is trained on zero rows and no
\* accuracy is computed over zero rows.
C28_NoEmptySubset ==
    vpc \in {"parallel", "joined"} =>
        /\ \A i \in 1..Len(folds) : Len(folds[i][1]) >= 1 /\ Len(folds[i][2]) >= 1
        /\ \A f \in FoldIds :
              trained[f] # <<>> =>
                  Len(trained[f].train) >= 1 /\ Len(trained[f].val) >= 1

\* as many folds as rows: every validation subset is a single row, and the
\* tree of the last fold has been trained and scored
C28_Witness ==
    /\ vpc = "parallel"
    /\ k_folds_ = MaxCVFolds
    /\ Len(data_) = k_folds_
    /\ trained[k_folds_ - 1] # <<>>
    /\ Len(trained[k_folds_ - 1].val) = 1
    /\ Len(trained[k_folds_ - 1].train) = k_folds_ - 1

\* the iterations that are inside the block of the master construct
InMasterBlock == {f \in DOMAIN iter : iter[f].st = "master"}

\* C29: the progress counter completed_folds (a static variable, shared by
\* all threads and all calls) is read and written only by the master thread
\* of the parallel region, so in no interleaving do two threads access it at
\* the same time.
C29_CounterOnlyOnMaster ==
    /\ \A f \in InMasterBlock : iter[f].th = "master"
    /\ Cardinality(InMasterBlock) <= 1
    /\ cf_threads \subseteq {"master"}
    /\ completed_folds > 0 => cf_threads = {"master"}

\* in a call after the first, the master thread is inside the block while
\* two other iterations are run by other threads of the team
C29_Witness ==
    /\ vpc = "parallel"
    /\ num_threads = MaxThreads
    /\ k_folds_ = 3
    /\ completed_folds >= 1
    /\ Cardinality(InMasterBlock) = 1
    /\ Cardinality({f \in DOMAIN iter :
                       iter[f].th = "worker" /\ iter[f].st \in {"train", "write"}}) = 2

(***************************************************************************)
(* getBestParams on no results (SpecGrid)                                  *)
(***************************************************************************)
\* C30: getBestParams on an empty result sequence does not fail and reads no
\* result: it returns the default hyperparameter set (max_depth 5, min_obs 1,
\* loss gini_impurity).
C30_DefaultForNoResults ==
    (pc = "returned" /\ results = <<>>) =>
        ret = [max_depth |-> 5, min_obs |-> 1, loss |-> "gini_impurity"]

\* gridSearchCV of an empty grid has returned no result and getBestParams
\* has returned
C30_Witness ==
    /\ pc = "returned"
    /\ param_grid = <<>>
    /\ arg = <<>>
    /\ results = <<>>
    /\ ret # <<>>

====
